---- MODULE Spec2Model ----
(***************************************************************************)
(* The incremental global-style builder of the compiler                   *)
(* (src/compiler/style/global-styles.ts): generateGlobalStyles,           *)
(* buildGlobalStyles, canSkipGlobalStyles and the import walk             *)
(* hasChangedImportFile / hasChangedImportContent.                        *)
(*                                                                         *)
(* One build runs at a time.  A build is a sequence of steps separated by *)
(* the awaits on its external collaborators: the file reads of the walk,  *)
(* the plugin transform chain and the CSS optimizer.                      *)
(***************************************************************************)
EXTENDS Integers, Sequences, FiniteSets, TLC

\* ------------------------------------------------------------------ bounds
\* at most this many paths in buildCtx.filesChanged
MaxChanged == 1
\* at most this many entries in the dependencies a transform returns
MaxDeps == 1

\* ------------------------------------------------------------------- paths
\* A path is a sequence of tokens: separators and names.
G == <<"/", "global.css">>
A == <<"/", "a.css">>
B == <<"/", "b.css">>
C == <<"/", "c.css">>
U == <<"/", "unrelated.ts">>
\* config.globalStyle when no global style is set (undefined or '')
NoPath == <<>>

\* the style files of the project
CssFiles == {G, A, B, C}
\* the files an @import may name, and a plugin may return as a dependency
ImportFiles == {A, B}
\* the files the watcher may report as changed
ChangeFiles == {G, A, B, U}
\* the files of the global-style output targets
O1 == "dist/o1.css"
O2 == "dist/o2.css"

\* @utils normalizePath, its slash normalisation: every backslash separator
\* becomes a forward slash
normalizePath(p) == [i \in DOMAIN p |-> IF p[i] = "\\" THEN "/" ELSE p[i]]

\* ------------------------------------------------------------------ values
\* JavaScript null / undefined
Null == [kind |-> "null", imports |-> {}]
\* the empty string ''
EmptyString == [kind |-> "empty", imports |-> {}]
\* a non-empty style text, known by the files its @import statements name
Text(S) == [kind |-> "text", imports |-> S]
Texts == {Text(S) : S \in SUBSET ImportFiles}
\* the value of a call that has not returned
Pending == [kind |-> "pending", imports |-> {}]
\* truthiness as it would be if the empty string were truthy
IsTruthyAlsoEmpty(v) == v.kind \in {"text", "empty"}
\* JavaScript truthiness of a string-or-null value
IsTruthy(v) == v.kind = "text"

\* sequences over S of length at most n
RECURSIVE SeqsUpTo(_, _)
SeqsUpTo(S, n) ==
  IF n = 0 THEN {<<>>}
  ELSE LET shorter == SeqsUpTo(S, n - 1)
       IN shorter \cup {Append(s, x) : s \in {t \in shorter : Len(t) = n - 1}, x \in S}

Range(s) == {s[i] : i \in DOMAIN s}

\* what runPluginTransforms gives back (or that it throws)
TransformOutcomes ==
  {[shape |-> "throw", code |-> Null, isArray |-> FALSE, deps |-> <<>>],
   [shape |-> "null", code |-> Null, isArray |-> FALSE, deps |-> <<>>]}
  \cup {[shape |-> "string", code |-> c, isArray |-> FALSE, deps |-> <<>>] :
          c \in {EmptyString, Text({A})}}
  \cup {[shape |-> "object", code |-> c, isArray |-> FALSE, deps |-> <<>>] :
          c \in {Null, EmptyString, Text({A})}}
  \cup {[shape |-> "object", code |-> c, isArray |-> TRUE, deps |-> d] :
          c \in {Null, Text({A})}, d \in SeqsUpTo(ImportFiles, MaxDeps)}

\* what optimizeCss gives back (or that it throws)
OptimizeOutcomes ==
  {[threw |-> TRUE, css |-> Null]}
  \cup {[threw |-> FALSE, css |-> c] : c \in Texts \cup {EmptyString}}

\* the contents of the style files on disk: what each file imports; the entry
\* file imports a.css or nothing, no file imports itself
Contents == [CssFiles -> {Text(S) : S \in SUBSET CssFiles}]
\* the projects of the builds: c.css is a file that imports nothing and that no
\* file imports
Graphs == {c \in Contents : /\ c[G].imports \subseteq {A}
                            /\ c[C].imports = {}
                            /\ \A f \in CssFiles : f \notin c[f].imports
                                                    /\ C \notin c[f].imports}

\* the validated configs: no or two global-style output targets, no or one
\* entry path; a validated config holds its paths in normalized form
Configs == [outputTargets : {{}, {O1, O2}}, globalStyle : {NoPath, G}]

\* the build contexts a build may be given
BuildCtxs ==
  [isRebuild : BOOLEAN, requiresFullBuild : BOOLEAN, hasStyleChanges : BOOLEAN,
   filesChanged : {S \in SUBSET ChangeFiles : Cardinality(S) <= MaxChanged}]

VARIABLES
  config,             \* d.ValidatedConfig given to the running build
  fs,                 \* compilerCtx.fs: the content of each style file
  cachedGlobalStyle,  \* compilerCtx.cachedGlobalStyle
  cssModuleImports,   \* compilerCtx.cssModuleImports: path -> list of paths
  pc,                 \* where the running build stands
  buildCtx,           \* d.BuildCtx given to the running build
  diagnostics,        \* buildCtx.diagnostics
  walk,               \* the import walk: noLoop, reads in flight, verdict so far
  cssCode,            \* buildGlobalStyles' local cssCode
  dependencies,       \* buildGlobalStyles' local dependencies
  transformed,        \* what runPluginTransforms gave this build
  optimized,          \* what optimizeCss gave this build
  decision,           \* what canSkipGlobalStyles answered in this build
  result,             \* what generateGlobalStyles returned
  writes,             \* <<file, text>> given to fs.writeFile in this build
  watched,            \* paths given to addWatchFile in this build
  transformCalls,     \* calls of runPluginTransforms in this build
  optimizeCalls,      \* calls of optimizeCss in this build
  lastBuild,          \* how the last build with a global style ended: "failed",
                      \* "reused" (the cached text), "computed" (a new text),
                      \* "nothing" (no applicable transform), "none" before it
  calls,              \* generateGlobalStyles calls running concurrently on the
                      \* session, each with its build context and locals
  cacheWriter,        \* which recomputation assigned cachedGlobalStyle last
  transformOpts,      \* d.TransformOptions given to updateStyleImports
  tsSourceFile,       \* the ts.SourceFile given to updateStyleImports
  moduleFile,         \* the d.Module given to updateStyleImports
  updated,            \* the source file updateStyleImports returned
  classNode,          \* the component class given to the field rewriter
  rewritten           \* the constructor of the class the rewriter returned

vars == <<config, fs, cachedGlobalStyle, cssModuleImports, pc, buildCtx,
          diagnostics, walk, cssCode, dependencies, transformed, optimized,
          decision, result, writes, watched, transformCalls, optimizeCalls,
          lastBuild, calls, cacheWriter, transformOpts, tsSourceFile,
          moduleFile, updated, classNode, rewritten>>

\* the state of the style import linker, which the global-style builds leave
\* alone
linkVars == <<transformOpts, tsSourceFile, moduleFile, updated>>
\* the state of the field rewriter
rewriteVars == <<classNode, rewritten>>
\* the state of the concurrent calls, of the linker and of the rewriter, which
\* a build running alone leaves alone
others == <<calls, cacheWriter, linkVars, rewriteVars>>

\* no read in flight
NoPending == [f \in CssFiles |-> 0]
\* the walk before canSkipGlobalStyles starts it: noLoop is the checked files,
\* pending the reads in flight, found whether a promise resolved to true,
\* readFailed whether a read was rejected, reads the files given to readFile
NoWalk == [noLoop |-> <<>>, pending |-> NoPending, found |-> FALSE,
           readFailed |-> FALSE, reads |-> {}]
\* an absent list: undefined
Undefined == [isArray |-> FALSE, list |-> <<>>]
Array(l) == [isArray |-> TRUE, list |-> l]

\* the callers of generateGlobalStyles that may run at the same time
Callers == {1, 2}
\* a call that has not started; startedAt numbers the recomputations in the
\* order in which they start (0: none started)
NoCall == [pc |-> "idle",
           buildCtx |-> [isRebuild |-> FALSE, requiresFullBuild |-> FALSE,
                         hasStyleChanges |-> FALSE, filesChanged |-> {}],
           diagnostics |-> <<>>, walk |-> NoWalk, cssCode |-> Null,
           dependencies |-> Undefined, decision |-> "none", result |-> Pending,
           writes |-> {}, watched |-> {}, startedAt |-> 0]

\* no build is running and none has run
InitBuild ==
  /\ pc = "idle"
  /\ buildCtx = [isRebuild |-> FALSE, requiresFullBuild |-> FALSE,
                 hasStyleChanges |-> FALSE, filesChanged |-> {}]
  /\ diagnostics = <<>>
  /\ walk = NoWalk
  /\ cssCode = Null
  /\ dependencies = Undefined
  /\ transformed = "none"
  /\ optimized = "none"
  /\ decision = "none"
  /\ result = Pending
  /\ writes = {}
  /\ watched = {}
  /\ transformCalls = 0
  /\ optimizeCalls = 0
  /\ lastBuild = "none"

\* the linker is not called
InitLink ==
  /\ transformOpts = [module |-> "esm", styleImportData |-> "queryparams"]
  /\ tsSourceFile = [ref |-> "none", fileName |-> "", statements |-> <<>>]
  /\ moduleFile = [cmps |-> <<>>]
  /\ updated = [ref |-> "none", fileName |-> "", statements |-> <<>>]

\* the rewriter is not called
InitRewrite ==
  /\ classNode = [heritage |-> "none", fields |-> <<>>,
                  ctor |-> [present |-> FALSE, statements |-> <<>>]]
  /\ rewritten = [done |-> FALSE,
                  ctor |-> [present |-> FALSE, statements |-> <<>>],
                  accessors |-> {}]

\* no concurrent call, no call of the linker or of the rewriter
InitOthers ==
  /\ calls = [p \in Callers |-> NoCall]
  /\ cacheWriter = 0
  /\ InitLink
  /\ InitRewrite

Init ==
  /\ config \in Configs
  /\ fs \in Graphs
  /\ cachedGlobalStyle = Null
  /\ cssModuleImports = [k \in {} |-> <<>>]
  /\ InitBuild
  /\ InitOthers

\* ------------------------------------------------------------ collaborators
\* css-imports getCssImports: the files the @import statements of a text name
getCssImports(filePath, content) == content.imports

\* @utils catchError: one diagnostic appended to the build's diagnostics
catchError(diags) == Append(diags, [level |-> "error", absFilePath |-> NoPath])

\* Map.get and Map.set of cssModuleImports
MapGet(m, key) == IF key \in DOMAIN m THEN Array(m[key]) ELSE Undefined
MapSet(m, key, l) == [k \in DOMAIN m \cup {key} |-> IF k = key THEN l ELSE m[k]]

\* ------------------------------------------------- the import walk (123-175)
\* hasChangedImportContent as it would be without the reads of lines 163-174:
\* only the imports of the file itself are looked at
hasChangedImportContentShallow(w, ctx, filePath, content) ==
  LET cssImports == getCssImports(filePath, content)
  IN IF cssImports = {} THEN w
     ELSE IF \E changedFilePath \in ctx.filesChanged : changedFilePath \in cssImports
     THEN [w EXCEPT !.found = TRUE]
     ELSE w

\* hasChangedImportContent: no import, a changed import, or one read per import
hasChangedImportContent(w, ctx, filePath, content) ==
  LET cssImports == getCssImports(filePath, content)
  IN IF cssImports = {} THEN w
     ELSE IF \E changedFilePath \in ctx.filesChanged : changedFilePath \in cssImports
     THEN [w EXCEPT !.found = TRUE]
     ELSE [w EXCEPT !.pending = [f \in CssFiles |->
                                   @[f] + (IF f \in cssImports THEN 1 ELSE 0)],
                    !.reads = @ \cup cssImports]

\* hasChangedImportFile as it would be without the noLoop check of line 131
hasChangedImportFileNoGuard(w, ctx, filePath, content) ==
  hasChangedImportContent([w EXCEPT !.noLoop = Append(@, filePath)],
                          ctx, filePath, content)

\* hasChangedImportFile: a file already in noLoop is not looked at again
hasChangedImportFile(w, ctx, filePath, content) ==
  IF filePath \in Range(w.noLoop) THEN w
  ELSE hasChangedImportContent([w EXCEPT !.noLoop = Append(@, filePath)],
                               ctx, filePath, content)

\* the read of filePath, one of those in flight, is settled
ReadSettled(w, filePath) == [w EXCEPT !.pending[filePath] = @ - 1]

\* lines 164-169 as they would be without the try and catch: the rejection of
\* one read rejects the Promise.all of line 172, and the walk ends with no
\* verdict of a changed import
ReadRejectedAborts(w, filePath) ==
  [w EXCEPT !.pending = NoPending, !.readFailed = TRUE, !.found = FALSE]

\* lines 167-169: the read of filePath is rejected, its promise resolves to
\* false
ReadRejected(w, filePath) ==
  [ReadSettled(w, filePath) EXCEPT !.readFailed = TRUE]

\* canSkipGlobalStyles as it would be with the entry-file check (line 98) moved
\* before the rebuild short-circuit (line 94)
canSkipEntryFirst(cfg, cached, imports, ctx) ==
  IF ~IsTruthy(cached) THEN "stale"
  ELSE IF ctx.requiresFullBuild THEN "stale"
  ELSE IF cfg.globalStyle \in ctx.filesChanged THEN "stale"
  ELSE IF ctx.isRebuild /\ ~ctx.hasStyleChanges THEN "valid"
  ELSE LET cssModuleImportsOfEntry == MapGet(imports, cfg.globalStyle)
       IN IF /\ cssModuleImportsOfEntry.isArray
             /\ \E f \in ctx.filesChanged : f \in Range(cssModuleImportsOfEntry.list)
          THEN "stale"
          ELSE "walk"

\* canSkipGlobalStyles as it would be with the rebuild short-circuit (line 94)
\* as its first check
canSkipShortCircuitFirst(cfg, cached, imports, ctx) ==
  IF ctx.isRebuild /\ ~ctx.hasStyleChanges THEN "valid"
  ELSE IF ~IsTruthy(cached) THEN "stale"
  ELSE IF ctx.requiresFullBuild THEN "stale"
  ELSE IF cfg.globalStyle \in ctx.filesChanged THEN "stale"
  ELSE LET cssModuleImportsOfEntry == MapGet(imports, cfg.globalStyle)
       IN IF /\ cssModuleImportsOfEntry.isArray
             /\ \E f \in ctx.filesChanged : f \in Range(cssModuleImportsOfEntry.list)
          THEN "stale"
          ELSE "walk"

\* canSkipGlobalStyles as it would be without the entry-file check (lines 98-101)
canSkipNoEntryCheck(cfg, cached, imports, ctx) ==
  IF ~IsTruthy(cached) THEN "stale"
  ELSE IF ctx.requiresFullBuild THEN "stale"
  ELSE IF ctx.isRebuild /\ ~ctx.hasStyleChanges THEN "valid"
  ELSE LET cssModuleImportsOfEntry == MapGet(imports, cfg.globalStyle)
       IN IF /\ cssModuleImportsOfEntry.isArray
             /\ \E f \in ctx.filesChanged : f \in Range(cssModuleImportsOfEntry.list)
          THEN "stale"
          ELSE "walk"

\* canSkipGlobalStyles as it would be without the check of the recorded
\* dependencies (lines 103-106)
canSkipNoRecordedCheck(cfg, cached, imports, ctx) ==
  IF ~IsTruthy(cached) THEN "stale"
  ELSE IF ctx.requiresFullBuild THEN "stale"
  ELSE IF ctx.isRebuild /\ ~ctx.hasStyleChanges THEN "valid"
  ELSE IF cfg.globalStyle \in ctx.filesChanged THEN "stale"
  ELSE "walk"

\* canSkipGlobalStyles lines 86-106: the answer found without a walk, or "walk"
canSkipBeforeWalk(cfg, cached, imports, ctx) ==
  IF ~IsTruthy(cached) THEN "stale"
  ELSE IF ctx.requiresFullBuild THEN "stale"
  ELSE IF ctx.isRebuild /\ ~ctx.hasStyleChanges THEN "valid"
  ELSE IF cfg.globalStyle \in ctx.filesChanged THEN "stale"
  ELSE LET cssModuleImportsOfEntry == MapGet(imports, cfg.globalStyle)
       IN IF /\ cssModuleImportsOfEntry.isArray
             /\ \E f \in ctx.filesChanged : f \in Range(cssModuleImportsOfEntry.list)
          THEN "stale"
          ELSE "walk"

\* canSkipGlobalStyles lines 116-120: the walk's answer
canSkipAfterWalk(w) == IF w.found THEN "stale" ELSE "valid"

\* ----------------------------------------------- the build (lines 8-83)
\* generateGlobalStyles lines 19-23 as they would be if the text were written
\* to one output target only
ReturnWritesOneTarget(cfg, globalStyles) ==
  /\ result' = globalStyles
  /\ writes' = IF IsTruthy(globalStyles) /\ cfg.outputTargets # {}
               THEN {<<CHOOSE o \in cfg.outputTargets : TRUE, globalStyles>>}
               ELSE {}
  /\ pc' = "done"
  /\ cssCode' = Null
  /\ dependencies' = Undefined

\* generateGlobalStyles lines 19-23: the text, when there is one, is written
\* to every output target and returned
Return(cfg, globalStyles) ==
  /\ result' = globalStyles
  /\ writes' = IF IsTruthy(globalStyles)
               THEN {<<o, globalStyles>> : o \in cfg.outputTargets}
               ELSE {}
  /\ pc' = "done"
  /\ cssCode' = Null
  /\ dependencies' = Undefined

\* buildGlobalStyles lines 33-35 as they would be if the skipped build returned
\* no text
ReturnCachedNothing(cfg) ==
  /\ decision' = "valid"
  /\ Return(cfg, Null)
  /\ UNCHANGED <<cachedGlobalStyle, cssModuleImports>>

\* buildGlobalStyles lines 33-35: the cached text is the build's text
ReturnCached(cfg) ==
  /\ decision' = "valid"
  /\ Return(cfg, cachedGlobalStyle)
  /\ UNCHANGED <<cachedGlobalStyle, cssModuleImports>>

\* buildGlobalStyles lines 38-41: the entry is watched and the plugins are run
CallTransforms(cfg, seen, ncalls) ==
  /\ decision' = "stale"
  /\ watched' = seen \cup {normalizePath(cfg.globalStyle)}
  /\ transformCalls' = ncalls + 1
  /\ pc' = "transform"
  /\ UNCHANGED <<cachedGlobalStyle, cssModuleImports, cssCode, dependencies>>

\* buildGlobalStyles lines 81-82 as they would be without line 81
ReturnNullKeepsCache ==
  /\ Return(config, Null)
  /\ UNCHANGED <<cachedGlobalStyle, cssModuleImports>>

\* buildGlobalStyles lines 81-82: no text
ReturnNull ==
  /\ cachedGlobalStyle' = Null
  /\ Return(config, Null)
  /\ UNCHANGED cssModuleImports

\* buildGlobalStyles lines 76-82 as they would be if the catch block returned
\* without the reset of line 81
CatchBlockKeepsCache ==
  /\ LET d == catchError(diagnostics)
     IN diagnostics' = [d EXCEPT ![Len(d)].absFilePath = normalizePath(config.globalStyle)]
  /\ Return(config, Null)
  /\ UNCHANGED <<cachedGlobalStyle, cssModuleImports>>

\* buildGlobalStyles lines 76-82: the error becomes a diagnostic of the entry
CatchBlock ==
  /\ LET d == catchError(diagnostics)
     IN diagnostics' = [d EXCEPT ![Len(d)].absFilePath = normalizePath(config.globalStyle)]
  /\ ReturnNull

\* generateGlobalStyles line 14 and buildGlobalStyles line 28: is there a global
\* style to build
HasOutputTargets(cfg) == cfg.outputTargets # {}
\* line 28 as it would be without the check
HasGlobalStyleAlways(cfg) == TRUE
HasGlobalStyle(cfg) == cfg.globalStyle # NoPath

\* the transform chain or the optimizer threw, or the transform result had no
\* usable shape
RecomputeFailed ==
  transformed \in {"throw", "unusable"} \/ optimized = "throw"

\* the record of a build that has not started
NoBuild ==
  /\ buildCtx' = [isRebuild |-> FALSE, requiresFullBuild |-> FALSE,
                  hasStyleChanges |-> FALSE, filesChanged |-> {}]
  /\ diagnostics' = <<>>
  /\ walk' = NoWalk
  /\ transformed' = "none"
  /\ optimized' = "none"
  /\ decision' = "none"
  /\ result' = Pending
  /\ writes' = {}
  /\ watched' = {}
  /\ transformCalls' = 0
  /\ optimizeCalls' = 0

\* between two builds the session is given another validated config
Reconfigure ==
  /\ pc = "idle"
  /\ \E cfg \in Configs : cfg # config /\ config' = cfg
  /\ UNCHANGED <<fs, cachedGlobalStyle, cssModuleImports, pc, buildCtx,
                 diagnostics, walk, cssCode, dependencies, transformed, optimized,
                 decision, result, writes, watched, transformCalls, optimizeCalls,
                 lastBuild, others>>

\* the build is over: its build context and what it returned are dropped, the
\* session (compilerCtx) stays
EndBuild ==
  /\ pc = "done"
  /\ pc' = "idle"
  /\ NoBuild
  /\ lastBuild' = IF ~(HasOutputTargets(config) /\ HasGlobalStyle(config))
                  THEN lastBuild
                  ELSE IF RecomputeFailed THEN "failed"
                  ELSE IF decision = "valid" THEN "reused"
                  ELSE IF optimized = "ok" THEN "computed"
                  ELSE "nothing"
  /\ UNCHANGED <<config, fs, cachedGlobalStyle, cssModuleImports, cssCode,
                 dependencies, others>>

\* generateGlobalStyles is given a build context and runs to its first await
\* that is not settled at once: a read of the walk, or the plugin transforms
StartBuildWith(ctx) ==
  /\ buildCtx' = ctx
  /\ diagnostics' = <<>>
  /\ transformed' = "none"
  /\ optimized' = "none"
  /\ optimizeCalls' = 0
  /\ UNCHANGED <<config, fs, lastBuild, others>>
  /\ IF ~HasOutputTargets(config)
     THEN \* generateGlobalStyles lines 13-16
          /\ result' = EmptyString
          /\ decision' = "none"
          /\ walk' = NoWalk
          /\ writes' = {}
          /\ watched' = {}
          /\ transformCalls' = 0
          /\ pc' = "done"
          /\ UNCHANGED <<cachedGlobalStyle, cssModuleImports, cssCode,
                         dependencies>>
     ELSE IF ~HasGlobalStyle(config)
     THEN \* buildGlobalStyles lines 27-30
          /\ decision' = "none"
          /\ walk' = NoWalk
          /\ watched' = {}
          /\ transformCalls' = 0
          /\ Return(config, Null)
          /\ UNCHANGED <<cachedGlobalStyle, cssModuleImports>>
     ELSE LET before == canSkipBeforeWalk(config, cachedGlobalStyle,
                                          cssModuleImports, ctx)
              w == IF before = "walk"
                   THEN hasChangedImportFile(NoWalk, ctx, config.globalStyle,
                                             cachedGlobalStyle)
                   ELSE NoWalk
              verdict == IF before # "walk" THEN before
                         ELSE IF w.pending # NoPending THEN "walk"
                         ELSE canSkipAfterWalk(w)
          IN /\ walk' = w
             /\ CASE verdict = "walk" ->
                       /\ pc' = "walk"
                       /\ decision' = "none"
                       /\ result' = Pending
                       /\ writes' = {}
                       /\ watched' = {}
                       /\ transformCalls' = 0
                       /\ UNCHANGED <<cachedGlobalStyle, cssModuleImports,
                                      cssCode, dependencies>>
                  [] verdict = "valid" ->
                       /\ watched' = {}
                       /\ transformCalls' = 0
                       /\ ReturnCached(config)
                  [] verdict = "stale" ->
                       /\ writes' = {}
                       /\ result' = Pending
                       /\ CallTransforms(config, {}, 0)

\* generateGlobalStyles is called with any build context
StartBuild ==
  /\ pc = "idle"
  /\ \E ctx \in BuildCtxs : StartBuildWith(ctx)

\* one read of the walk is settled (lines 163-170): rejected, or its content
\* is given to hasChangedImportFile
WalkStep ==
  /\ pc = "walk"
  /\ \E filePath \in CssFiles, ok \in BOOLEAN :
       /\ walk.pending[filePath] > 0
       /\ walk' = IF ok
                  THEN hasChangedImportFile(ReadSettled(walk, filePath), buildCtx,
                                            filePath, fs[filePath])
                  ELSE ReadRejected(walk, filePath)
  /\ UNCHANGED <<config, fs, cachedGlobalStyle, cssModuleImports, pc, buildCtx,
                 diagnostics, cssCode, dependencies, transformed, optimized,
                 decision, result, writes, watched, transformCalls, optimizeCalls,
                 lastBuild, others>>

\* every read of the walk is settled (line 172): canSkipGlobalStyles answers
WalkDone ==
  /\ pc = "walk"
  /\ walk.pending = NoPending
  /\ IF canSkipAfterWalk(walk) = "valid"
     THEN /\ ReturnCached(config)
          /\ UNCHANGED <<watched, transformCalls>>
     ELSE /\ CallTransforms(config, watched, transformCalls)
          /\ UNCHANGED <<result, writes>>
  /\ UNCHANGED <<config, fs, buildCtx, diagnostics, walk, transformed, optimized,
                 optimizeCalls, lastBuild, others>>

\* how buildGlobalStyles lines 43-59 take a transform result
TransformTag(tr) ==
  CASE tr.shape = "throw" -> "throw"
    [] tr.shape = "null" -> "null"
    [] tr.shape = "string" -> IF IsTruthy(tr.code) THEN "string" ELSE "emptyString"
    [] tr.shape = "object" -> IF IsTruthy(tr.code) THEN "object" ELSE "unusable"

\* runPluginTransforms settles (lines 41-61)
TransformReturns ==
  /\ pc = "transform"
  /\ \E tr \in TransformOutcomes :
       LET tag == TransformTag(tr)
       IN /\ transformed' = tag
          /\ CASE tag = "throw" ->
                    /\ CatchBlock
                    /\ UNCHANGED optimizeCalls
               [] tag \in {"null", "emptyString"} ->
                    \* line 43: a falsy result
                    /\ ReturnNull
                    /\ UNCHANGED <<diagnostics, optimizeCalls>>
               [] tag = "unusable" ->
                    \* lines 55-59
                    /\ ReturnNull
                    /\ UNCHANGED <<diagnostics, optimizeCalls>>
               [] tag \in {"string", "object"} ->
                    /\ cssCode' = tr.code
                    /\ dependencies' = IF tag = "object" /\ tr.isArray
                                       THEN Array(tr.deps) ELSE Undefined
                    /\ optimizeCalls' = optimizeCalls + 1
                    /\ pc' = "optimize"
                    /\ UNCHANGED <<cachedGlobalStyle, cssModuleImports, result,
                                   writes, diagnostics>>
  /\ UNCHANGED <<config, fs, buildCtx, walk, optimized, decision, watched,
                 transformCalls, lastBuild, others>>

\* lines 65-72 as they would be if the returned dependencies replaced the list
MergeDependenciesReplacing(list, deps) == deps

\* lines 66-71: each dependency not yet in the list is pushed, in order
RECURSIVE MergeDependencies(_, _)
MergeDependencies(list, deps) ==
  IF deps = <<>> THEN list
  ELSE MergeDependencies(IF Head(deps) \in Range(list) THEN list
                         ELSE Append(list, Head(deps)),
                         Tail(deps))

\* optimizeCss settles (lines 61-74)
OptimizeReturns ==
  /\ pc = "optimize"
  /\ \E out \in OptimizeOutcomes :
       IF out.threw
       THEN /\ optimized' = "throw"
            /\ CatchBlock
            /\ UNCHANGED watched
       ELSE LET globalStylePath == normalizePath(config.globalStyle)
                had == MapGet(cssModuleImports, globalStylePath)
            IN /\ optimized' = "ok"
               /\ cachedGlobalStyle' = out.css
               /\ IF dependencies.isArray
                  THEN /\ watched' = watched \cup Range(dependencies.list)
                       /\ cssModuleImports' =
                            MapSet(cssModuleImports, globalStylePath,
                                   MergeDependencies(had.list, dependencies.list))
                  ELSE UNCHANGED <<watched, cssModuleImports>>
               /\ Return(config, out.css)
               /\ UNCHANGED diagnostics
  /\ UNCHANGED <<config, fs, buildCtx, walk, transformed, decision,
                 transformCalls, optimizeCalls, lastBuild, others>>

Next ==
  \/ Reconfigure \/ StartBuild \/ EndBuild
  \/ WalkStep \/ WalkDone \/ TransformReturns \/ OptimizeReturns

Spec == Init /\ [][Next]_vars

\* ------------------------------------ one staleness check (lines 85-175)
\* One build of a session that holds a cached text, in a project in which
\* a.css, b.css and c.css import each other in any way: the walk of
\* canSkipGlobalStyles over graphs with sibling branches.
WalkGraphs == {c \in Contents : /\ c[G].imports = {A}
                                /\ \A f \in CssFiles : f \notin c[f].imports}

\* the build contexts that bring canSkipGlobalStyles to the walk or to the
\* checks before it: no full build, any changed files
WalkCtxs ==
  [isRebuild : {FALSE}, requiresFullBuild : {FALSE}, hasStyleChanges : {TRUE},
   filesChanged : {S \in SUBSET (CssFiles \cup {U}) : Cardinality(S) <= MaxChanged}]

\* the session holds a text that an earlier build cached
WalkInit ==
  /\ config = [outputTargets |-> {O1, O2}, globalStyle |-> G]
  /\ fs \in WalkGraphs
  /\ cachedGlobalStyle \in Texts
  /\ cssModuleImports = [k \in {} |-> <<>>]
  /\ InitBuild
  /\ InitOthers

\* generateGlobalStyles is called in that session
StartWalk ==
  /\ pc = "idle"
  /\ \E ctx \in WalkCtxs : StartBuildWith(ctx)

WalkNext == StartWalk \/ WalkStep \/ WalkDone

WalkSpec == WalkInit /\ [][WalkNext]_vars

\* ------------------------------------------- concurrent calls (lines 8-121)
\* generateGlobalStyles called by several callers on one session (one
\* compilerCtx): the calls interleave at their awaits; each has its own build
\* context and locals, all share cachedGlobalStyle and cssModuleImports.
\* The single-build variables that these calls leave alone.
buildVars == <<pc, buildCtx, diagnostics, walk, cssCode, dependencies,
               transformed, optimized, decision, result, writes, watched,
               transformCalls, optimizeCalls, lastBuild>>

\* the build contexts of the concurrent calls
ConcCtxs ==
  [isRebuild : {TRUE}, requiresFullBuild : BOOLEAN, hasStyleChanges : BOOLEAN,
   filesChanged : {S \in SUBSET {G, A} : Cardinality(S) <= MaxChanged}]

\* the import graphs of the concurrent calls: the entry file imports a.css,
\* which imports the entry file, b.css, both or nothing
ConcGraphs == {g \in Graphs : g[G].imports = {A} /\ g[B].imports = {}}

\* the session the concurrent calls find: nothing cached, or the text and the
\* dependencies a build left
ConcInit ==
  /\ config \in Configs
  /\ fs \in ConcGraphs
  /\ \/ cachedGlobalStyle = Null /\ cssModuleImports = [k \in {} |-> <<>>]
     \/ /\ cachedGlobalStyle \in {Text({}), Text({A})}
        /\ cssModuleImports \in {[k \in {} |-> <<>>], [k \in {G} |-> <<B>>]}
  /\ InitBuild
  /\ InitOthers

\* the recomputations of the calls c that have started and not ended
InFlight(c) == {p \in Callers : c[p].pc \in {"transform", "optimize"}}
\* the number the next recomputation to start gets
RECURSIVE MaxStartedAt(_, _)
MaxStartedAt(c, P) ==
  IF P = {} THEN 0
  ELSE LET p == CHOOSE q \in P : TRUE
           rest == MaxStartedAt(c, P \ {p})
       IN IF c[p].startedAt > rest THEN c[p].startedAt ELSE rest

\* generateGlobalStyles lines 19-23 for the call c
CallReturn(c, cfg, globalStyles) ==
  [c EXCEPT !.result = globalStyles,
            !.writes = IF IsTruthy(globalStyles)
                       THEN {<<o, globalStyles>> : o \in cfg.outputTargets}
                       ELSE {},
            !.pc = "done",
            !.cssCode = Null,
            !.dependencies = Undefined]

\* buildGlobalStyles lines 38-41 for the call c, its recomputation the n-th
CallTransformsOf(c, cfg, n) ==
  [c EXCEPT !.decision = "stale",
            !.watched = @ \cup {normalizePath(cfg.globalStyle)},
            !.pc = "transform",
            !.startedAt = n]

\* buildGlobalStyles lines 76-79 for the call c
CallCaught(c, cfg) ==
  LET d == catchError(c.diagnostics)
  IN [c EXCEPT !.diagnostics =
                 [d EXCEPT ![Len(d)].absFilePath = normalizePath(cfg.globalStyle)]]

\* the caller p calls generateGlobalStyles (lines 8-41, to the first await
\* that is not settled at once)
CallStart(p) ==
  /\ calls[p].pc = "idle"
  /\ \E ctx \in ConcCtxs :
       LET c == [calls[p] EXCEPT !.buildCtx = ctx]
       IN IF ~HasOutputTargets(config)
          THEN calls' = [calls EXCEPT ![p] = [c EXCEPT !.result = EmptyString,
                                                       !.pc = "done"]]
          ELSE IF ~HasGlobalStyle(config)
          THEN calls' = [calls EXCEPT ![p] = CallReturn(c, config, Null)]
          ELSE LET before == canSkipBeforeWalk(config, cachedGlobalStyle,
                                               cssModuleImports, ctx)
                   w == IF before = "walk"
                        THEN hasChangedImportFile(NoWalk, ctx, config.globalStyle,
                                                  cachedGlobalStyle)
                        ELSE NoWalk
                   verdict == IF before # "walk" THEN before
                              ELSE IF w.pending # NoPending THEN "walk"
                              ELSE canSkipAfterWalk(w)
                   cw == [c EXCEPT !.walk = w]
               IN calls' = [calls EXCEPT ![p] =
                    CASE verdict = "walk" -> [cw EXCEPT !.pc = "walk"]
                      [] verdict = "valid" ->
                           CallReturn([cw EXCEPT !.decision = "valid"], config,
                                      cachedGlobalStyle)
                      [] verdict = "stale" ->
                           CallTransformsOf(cw, config,
                                            MaxStartedAt(calls, Callers) + 1)]
  /\ UNCHANGED <<config, fs, cachedGlobalStyle, cssModuleImports, cacheWriter,
                 buildVars, linkVars, rewriteVars>>

\* one read of the walk of the caller p is settled (lines 163-170)
CallWalkStep(p) ==
  /\ calls[p].pc = "walk"
  /\ \E filePath \in CssFiles, ok \in BOOLEAN :
       /\ calls[p].walk.pending[filePath] > 0
       /\ calls' = [calls EXCEPT ![p].walk =
            IF ok
            THEN hasChangedImportFile(ReadSettled(@, filePath), calls[p].buildCtx,
                                      filePath, fs[filePath])
            ELSE ReadRejected(@, filePath)]
  /\ UNCHANGED <<config, fs, cachedGlobalStyle, cssModuleImports, cacheWriter,
                 buildVars, linkVars, rewriteVars>>

\* every read of the walk of the caller p is settled (line 172, lines 32-41)
CallWalkDone(p) ==
  /\ calls[p].pc = "walk"
  /\ calls[p].walk.pending = NoPending
  /\ calls' = [calls EXCEPT ![p] =
       IF canSkipAfterWalk(@.walk) = "valid"
       THEN CallReturn([@ EXCEPT !.decision = "valid"], config, cachedGlobalStyle)
       ELSE CallTransformsOf(@, config, MaxStartedAt(calls, Callers) + 1)]
  /\ UNCHANGED <<config, fs, cachedGlobalStyle, cssModuleImports, cacheWriter,
                 buildVars, linkVars, rewriteVars>>

\* runPluginTransforms settles for the caller p (lines 41-61, 76-82)
CallTransformReturns(p) ==
  /\ calls[p].pc = "transform"
  /\ \E tr \in TransformOutcomes :
       LET tag == TransformTag(tr)
           c == calls[p]
       IN IF tag \in {"string", "object"}
          THEN /\ calls' = [calls EXCEPT ![p] =
                    [c EXCEPT !.cssCode = tr.code,
                              !.dependencies = IF tag = "object" /\ tr.isArray
                                               THEN Array(tr.deps) ELSE Undefined,
                              !.pc = "optimize"]]
               /\ UNCHANGED <<cachedGlobalStyle, cacheWriter>>
          ELSE /\ calls' = [calls EXCEPT ![p] =
                    CallReturn(IF tag = "throw" THEN CallCaught(c, config) ELSE c,
                               config, Null)]
               /\ cachedGlobalStyle' = Null
               /\ cacheWriter' = c.startedAt
  /\ UNCHANGED <<config, fs, cssModuleImports, buildVars, linkVars, rewriteVars>>

\* optimizeCss settles for the caller p (lines 61-74, 76-82)
CallOptimizeReturns(p) ==
  /\ calls[p].pc = "optimize"
  /\ \E out \in OptimizeOutcomes :
       LET c == calls[p]
           globalStylePath == normalizePath(config.globalStyle)
           had == MapGet(cssModuleImports, globalStylePath)
       IN /\ cacheWriter' = c.startedAt
          /\ IF out.threw
             THEN /\ calls' = [calls EXCEPT ![p] =
                       CallReturn(CallCaught(c, config), config, Null)]
                  /\ cachedGlobalStyle' = Null
                  /\ UNCHANGED cssModuleImports
             ELSE /\ cachedGlobalStyle' = out.css
                  /\ cssModuleImports' =
                       IF c.dependencies.isArray
                       THEN MapSet(cssModuleImports, globalStylePath,
                                   MergeDependencies(had.list, c.dependencies.list))
                       ELSE cssModuleImports
                  /\ calls' = [calls EXCEPT ![p] =
                       CallReturn([c EXCEPT !.watched =
                                     IF c.dependencies.isArray
                                     THEN @ \cup Range(c.dependencies.list) ELSE @],
                                  config, out.css)]
  /\ UNCHANGED <<config, fs, buildVars, linkVars, rewriteVars>>

ConcNext ==
  \E p \in Callers :
    \/ CallStart(p) \/ CallWalkStep(p) \/ CallWalkDone(p)
    \/ CallTransformReturns(p) \/ CallOptimizeReturns(p)

\* the session under concurrent calls of generateGlobalStyles
ConcSpec == ConcInit /\ [][ConcNext]_vars

\* ------------------------- the style import linker (style-imports.ts 1-174)
\* at most this many statements in the source file given to the linker
MaxStmts == 2
\* at most this many styles in the first component of the module
MaxStyles == 2

\* no identifier: style.styleIdentifier that is no string, an import
\* declaration without import clause or without default binding
NoName == ""
\* the import path of a statement that has none
NoSpecifier == <<>>

\* an import declaration with the default binding name (NoName: without one)
\* and the string literal path as module specifier
ImportDeclaration(name, path) == [kind |-> "import", name |-> name, path |-> path]
\* const name = require(path)
RequireStatement(name, path) == [kind |-> "require", name |-> name, path |-> path]
\* any other statement, known by its text
OtherStatement(text) == [kind |-> "other", name |-> text, path |-> NoSpecifier]
isImportDeclaration(n) == n.kind = "import"

\* the statements a source file given to the linker is made of
Statements ==
  {ImportDeclaration("cmpAStyle0", <<"./a.css">>),
   ImportDeclaration(NoName, <<"@stencil/core">>),
   OtherStatement("class CmpA {}"),
   OtherStatement("export { CmpA }")}

\* the style entries of a component: without identifier (an inline style),
\* built from a styleUrl (identifier and external style), of an identifier
\* the module imports itself (no external style), and an external style
\* without identifier
StyleCompilers ==
  {[styleIdentifier |-> NoName, externalStyles |-> <<>>, modeName |-> "$"],
   [styleIdentifier |-> "cmpAStyle0", externalStyles |-> << <<"/src/a.css">> >>,
    modeName |-> "$"],
   [styleIdentifier |-> "cmpBStyle0", externalStyles |-> << <<"/src/b.css">> >>,
    modeName |-> "$"],
   [styleIdentifier |-> "cmpAStyle0", externalStyles |-> <<>>, modeName |-> "$"],
   [styleIdentifier |-> NoName, externalStyles |-> << <<"/src/a.css">> >>,
    modeName |-> "$"]}

\* the modules given to the linker: two components, the first with up to
\* MaxStyles style entries, the second with one or none
ModuleFiles ==
  {[cmps |-> << [tagName |-> "cmp-a", encapsulation |-> "shadow", styles |-> sa],
                [tagName |-> "cmp-b", encapsulation |-> "none", styles |-> sb] >>] :
     sa \in SeqsUpTo(StyleCompilers, MaxStyles),
     sb \in {<<>>} \cup {<<s>> : s \in StyleCompilers}}

\* the source files given to the linker; ref tells one source-file object from
\* another
SourceFiles ==
  {[ref |-> "tsSourceFile", fileName |-> "/src/cmp.tsx", statements |-> st] :
     st \in SeqsUpTo(Statements, MaxStmts)}

TransformOptions ==
  [module : {"cjs", "esm"}, styleImportData : {"queryparams"}]

\* the linker has not returned
NotUpdated == [ref |-> "none", fileName |-> "", statements |-> <<>>]

\* ts.factory.updateSourceFile: another source-file object, with the given
\* statements (the given array is never the node's own)
updateSourceFile(node, statements) ==
  [node EXCEPT !.ref = "updated", !.statements = statements]

\* stencil-import-path serializeImportPath: the importee path followed by the
\* tag, the encapsulation and the mode as query parameters
serializeImportPath(importData, styleImportData) ==
  importData.importeePath
    \o <<"?tag=", importData.tag, "&encapsulation=", importData.encapsulation,
         "&mode=", importData.mode>>

\* getStyleImportPath (lines 158-173)
getStyleImportPath(opts, src, cmp, style, importPath) ==
  serializeImportPath([importeePath |-> importPath, importerPath |-> src.fileName,
                       tag |-> cmp.tagName, encapsulation |-> cmp.encapsulation,
                       mode |-> style.modeName],
                      opts.styleImportData)

\* typeof style.styleIdentifier === 'string'
HasIdentifier(style) == style.styleIdentifier # NoName

\* cmps.forEach(cmp => cmp.styles.forEach(style => ...)): the pairs of a
\* component and one of its styles, in iteration order
RECURSIVE StyleEntries(_)
StyleEntries(cmps) ==
  IF cmps = <<>> THEN <<>>
  ELSE [i \in 1..Len(Head(cmps).styles) |->
          [cmp |-> Head(cmps), style |-> Head(cmps).styles[i]]]
       \o StyleEntries(Tail(cmps))

\* the least member of a non-empty set of numbers
Least(S) == CHOOSE i \in S : \A j \in S : i <= j
\* the import declarations of the statements whose default binding is name
ImportsOf(statements, name) ==
  {i \in DOMAIN statements : /\ isImportDeclaration(statements[i])
                             /\ statements[i].name # NoName
                             /\ statements[i].name = name}

\* updateEsmStyleImportPath as it would be without the break of line 82
updateEsmStyleImportPathNoBreak(opts, src, statements, cmp, style) ==
  [i \in DOMAIN statements |->
     IF i \in ImportsOf(statements, style.styleIdentifier)
     THEN [statements[i] EXCEPT
             !.path = getStyleImportPath(opts, src, cmp, style, @)]
     ELSE statements[i]]

\* updateEsmStyleImportPath (lines 60-87): the first import declaration whose
\* default binding is the identifier gets the derived path
updateEsmStyleImportPath(opts, src, statements, cmp, style) ==
  LET found == ImportsOf(statements, style.styleIdentifier)
  IN IF found = {} THEN statements
     ELSE [statements EXCEPT
             ![Least(found)].path = getStyleImportPath(opts, src, cmp, style, @)]

\* createEsmStyleImport (lines 89-104)
createEsmStyleImport(opts, src, cmp, style) ==
  ImportDeclaration(style.styleIdentifier,
                    getStyleImportPath(opts, src, cmp, style, style.externalStyles[1]))

\* createCjsStyleRequire (lines 129-156)
createCjsStyleRequire(opts, src, cmp, style) ==
  RequireStatement(style.styleIdentifier,
                   getStyleImportPath(opts, src, cmp, style, style.externalStyles[1]))

\* lines 28-41: the loop over the style entries, from the state acc
RECURSIVE EsmLoop(_, _, _, _)
EsmLoop(opts, src, entries, acc) ==
  IF entries = <<>> THEN acc
  ELSE LET cmp == Head(entries).cmp
           style == Head(entries).style
       IN EsmLoop(opts, src, Tail(entries),
            IF ~HasIdentifier(style) THEN acc
            ELSE IF Len(style.externalStyles) > 0
            THEN [acc EXCEPT !.updateSourceFile = TRUE,
                             !.styleImports =
                                Append(@, createEsmStyleImport(opts, src, cmp, style))]
            ELSE [acc EXCEPT !.updateSourceFile = TRUE,
                             !.statements =
                                updateEsmStyleImportPath(opts, src, @, cmp, style)])

\* lines 44-50: the index of the last import declaration, 0 when there is none
lastImportIndex(statements) ==
  LET imports == {i \in DOMAIN statements : isImportDeclaration(statements[i])}
  IN IF imports = {} THEN 0 ELSE CHOOSE i \in imports : \A j \in imports : j <= i

\* line 52 as it would be if the style imports were put before all statements
spliceAtTop(statements, styleImports) == styleImports \o statements

\* line 52: statements.splice(lastImportIndex + 1, 0, ...styleImports)
spliceStyleImports(statements, styleImports) ==
  LET last == lastImportIndex(statements)
  IN SubSeq(statements, 1, last) \o styleImports
       \o SubSeq(statements, last + 1, Len(statements))

\* updateEsmStyleImports as it would be if it gave a new source file always
updateEsmStyleImportsAlways(opts, src, module) ==
  LET acc == EsmLoop(opts, src, StyleEntries(module.cmps),
                     [styleImports |-> <<>>, statements |-> src.statements,
                      updateSourceFile |-> FALSE])
  IN updateSourceFile(src, spliceStyleImports(acc.statements, acc.styleImports))

\* updateEsmStyleImports (lines 19-58)
updateEsmStyleImports(opts, src, module) ==
  LET acc == EsmLoop(opts, src, StyleEntries(module.cmps),
                     [styleImports |-> <<>>, statements |-> src.statements,
                      updateSourceFile |-> FALSE])
  IN IF acc.updateSourceFile
     THEN updateSourceFile(src, spliceStyleImports(acc.statements, acc.styleImports))
     ELSE src

\* lines 113-120: the require statements of the style entries, in order
RECURSIVE CjsLoop(_, _, _, _)
CjsLoop(opts, src, entries, styleRequires) ==
  IF entries = <<>> THEN styleRequires
  ELSE LET cmp == Head(entries).cmp
           style == Head(entries).style
       IN CjsLoop(opts, src, Tail(entries),
            IF HasIdentifier(style) /\ Len(style.externalStyles) > 0
            THEN Append(styleRequires, createCjsStyleRequire(opts, src, cmp, style))
            ELSE styleRequires)

\* updateCjsStyleRequires as it would be if line 123 put the requires last
updateCjsStyleRequiresLast(opts, src, module) ==
  LET styleRequires == CjsLoop(opts, src, StyleEntries(module.cmps), <<>>)
  IN IF Len(styleRequires) > 0
     THEN updateSourceFile(src, src.statements \o styleRequires)
     ELSE src

\* updateCjsStyleRequires (lines 106-127)
updateCjsStyleRequires(opts, src, module) ==
  LET styleRequires == CjsLoop(opts, src, StyleEntries(module.cmps), <<>>)
  IN IF Len(styleRequires) > 0
     THEN updateSourceFile(src, styleRequires \o src.statements)
     ELSE src

\* updateStyleImports (lines 6-17)
updateStyleImports(opts, src, module) ==
  IF opts.module = "cjs" THEN updateCjsStyleRequires(opts, src, module)
  ELSE updateEsmStyleImports(opts, src, module)

\* the linker is given any module in any of the two conventions
LinkInit ==
  /\ transformOpts \in TransformOptions
  /\ tsSourceFile \in SourceFiles
  /\ moduleFile \in ModuleFiles
  /\ updated = NotUpdated
  /\ config = [outputTargets |-> {}, globalStyle |-> NoPath]
  /\ fs = [f \in CssFiles |-> Text({})]
  /\ cachedGlobalStyle = Null
  /\ cssModuleImports = [k \in {} |-> <<>>]
  /\ InitBuild
  /\ calls = [p \in Callers |-> NoCall]
  /\ cacheWriter = 0
  /\ InitRewrite

\* the transform calls updateStyleImports
UpdateStyleImports ==
  /\ updated = NotUpdated
  /\ updated' = updateStyleImports(transformOpts, tsSourceFile, moduleFile)
  /\ UNCHANGED <<transformOpts, tsSourceFile, moduleFile, config, fs,
                 cachedGlobalStyle, cssModuleImports, buildVars, calls,
                 cacheWriter, rewriteVars>>

LinkNext == UpdateStyleImports

LinkSpec == LinkInit /\ [][LinkNext]_vars

\* --------------- the field rewriter (decorators-to-static/convert-decorators)
\* at most this many annotated fields in a class
MaxFields == 2
\* at most this many statements in a constructor the user wrote
MaxCtorStmts == 2

\* the kinds of annotated fields
FieldKinds == {"Prop", "State", "Event", "Other"}
\* the names of the members of a class
FieldNames == {"count", "foo", "val"}
\* the initial value of a field declared without one: the undefined sentinel
UndefinedValue == "undefined"
\* the annotated fields of a class: kind, name, captured initial value
AnnotatedFields ==
  [kind : FieldKinds, name : FieldNames, initialValue : {UndefinedValue, "0"}]
\* the sequences of annotated fields a class may declare: names are unique
FieldLists ==
  {fields \in SeqsUpTo(AnnotatedFields, MaxFields) :
     \A i, j \in DOMAIN fields : fields[i].name = fields[j].name => i = j}

\* this.member = value;
Assignment(member, value) == [kind |-> "assign", member |-> member, value |-> value]
\* super();
SuperCall == [kind |-> "super", member |-> "", value |-> ""]
\* any other statement, known by its text
UserStatement(text) == [kind |-> "other", member |-> "", value |-> text]

\* the statements a user writes in a constructor
UserStatements ==
  {UserStatement("console.log('boop')"), Assignment("count", "3"), SuperCall}

\* a class without constructor
NoConstructor == [present |-> FALSE, statements |-> <<>>]
Constructor(statements) == [present |-> TRUE, statements |-> statements]

\* the heritage of a class: none, implements clauses only, extends a class
\* that is not resolvable in the module, extends a class of the module whose
\* members are resolvable and need no call
Heritages == {"none", "implements", "extends", "extendsLocal"}

\* the component classes given to the rewriter; a constructor calls super only
\* in a class that extends another
ClassDeclarations ==
  {cls \in [heritage : Heritages, fields : FieldLists,
            ctor : {NoConstructor}
                   \cup {Constructor(st) : st \in SeqsUpTo(UserStatements, MaxCtorStmts)}] :
     (\E i \in DOMAIN cls.ctor.statements : cls.ctor.statements[i] = SuperCall)
       => cls.heritage \in {"extends", "extendsLocal"}}

\* the rewriter has not returned
NotRewritten == [done |-> FALSE, ctor |-> NoConstructor, accessors |-> {}]

\* the fields that take part in constructor initialization: Prop, State and
\* Other fields, never Event fields
Initialized(field) == field.kind \in {"Prop", "State", "Other"}

\* the initialization assignments of the fields as they would be if Event
\* fields took part too
InitializationAssignmentsAll(fields) ==
  [i \in DOMAIN fields |-> Assignment(fields[i].name, fields[i].initialValue)]

\* one assignment per Prop/State/Other field, in declaration order, of its
\* captured initial value or the undefined sentinel
InitializationAssignments(fields) ==
  LET kept == SelectSeq(fields, Initialized)
  IN [i \in DOMAIN kept |-> Assignment(kept[i].name, kept[i].initialValue)]

\* a bare superclass call is due as it would be for any heritage clause
NeedsSuperAnyClause(cls) == cls.heritage # "none"

\* a bare superclass call is due: the class extends another class, unless the
\* parent is locally resolvable and provably needs no call
NeedsSuper(cls) == cls.heritage = "extends"

\* the constructor has a superclass call already
FoundSuper(statements) == \E i \in DOMAIN statements : statements[i] = SuperCall

\* the constructor as it would be if a constructor were synthesized for every
\* class, with or without fields to initialize
RewriteConstructorAlways(cls) ==
  LET assignments == InitializationAssignments(cls.fields)
      super == IF NeedsSuper(cls) /\ ~FoundSuper(cls.ctor.statements)
               THEN <<SuperCall>> ELSE <<>>
  IN Constructor(super \o assignments \o cls.ctor.statements)

\* the constructor as it would be if the assignments followed the user's
\* statements
RewriteConstructorAppending(cls) ==
  LET assignments == InitializationAssignments(cls.fields)
      super == IF NeedsSuper(cls) /\ ~FoundSuper(cls.ctor.statements)
               THEN <<SuperCall>> ELSE <<>>
  IN IF assignments = <<>> THEN cls.ctor
     ELSE Constructor(super \o cls.ctor.statements \o assignments)

\* constructor handling, by case: no fields to initialize, the constructor (or
\* its absence) is left as it is; otherwise the constructor is, in order, a
\* bare superclass call when one is due and the user wrote none, the
\* initialization assignments, the statements the user wrote
RewriteConstructor(cls) ==
  LET assignments == InitializationAssignments(cls.fields)
      super == IF NeedsSuper(cls) /\ ~FoundSuper(cls.ctor.statements)
               THEN <<SuperCall>> ELSE <<>>
  IN IF assignments = <<>> THEN cls.ctor
     ELSE Constructor(super \o assignments \o cls.ctor.statements)

\* the class has a field of the kind
HasField(cls, kind) == \E i \in DOMAIN cls.fields : cls.fields[i].kind = kind

\* the static accessor `is` is emitted: for a class that does not extend
\* another class; not for a class that extends a class that is not locally
\* resolvable (the test 'should add a super call to the constructor if
\* necessary' expects none); for a class that extends a locally resolvable
\* class neither the contract nor a test says, local stands for what the
\* rewriter does
EmitsIs(cls, local) ==
  CASE cls.heritage \in {"none", "implements"} -> TRUE
    [] cls.heritage = "extends" -> FALSE
    [] cls.heritage = "extendsLocal" -> local

\* the static accessors as they would be if `states` were emitted for a class
\* with any annotated field
StaticAccessorsStatesForAnyField(cls, local) ==
  (IF EmitsIs(cls, local) THEN {"is"} ELSE {})
  \cup (IF HasField(cls, "Prop") THEN {"properties"} ELSE {})
  \cup (IF cls.fields # <<>> THEN {"states"} ELSE {})
  \cup (IF HasField(cls, "Event") THEN {"events"} ELSE {})

\* the static accessors of the rewritten class: `is`, and `properties`,
\* `states`, `events` each only if a field of its kind exists
StaticAccessors(cls, local) ==
  (IF EmitsIs(cls, local) THEN {"is"} ELSE {})
  \cup (IF HasField(cls, "Prop") THEN {"properties"} ELSE {})
  \cup (IF HasField(cls, "State") THEN {"states"} ELSE {})
  \cup (IF HasField(cls, "Event") THEN {"events"} ELSE {})

\* the tests of the rewriter: the class given and the constructor expected
\* 'should preserve statements in an existing constructor w/ @Prop'
TestPreserveWithProp ==
  [given |-> [heritage |-> "none",
              fields |-> <<[kind |-> "Prop", name |-> "count",
                            initialValue |-> UndefinedValue]>>,
              ctor |-> Constructor(<<UserStatement("console.log('boop')")>>)],
   expected |-> Constructor(<<Assignment("count", UndefinedValue),
                              UserStatement("console.log('boop')")>>)]
\* 'should allow user to initialize field in an existing constructor w/ @Prop'
TestUserInitializes ==
  [given |-> [heritage |-> "none",
              fields |-> <<[kind |-> "Prop", name |-> "count",
                            initialValue |-> UndefinedValue]>>,
              ctor |-> Constructor(<<Assignment("count", "3")>>)],
   expected |-> Constructor(<<Assignment("count", UndefinedValue),
                              Assignment("count", "3")>>)]
\* 'should add a super call to the constructor if necessary'
TestAddSuper ==
  [given |-> [heritage |-> "extends",
              fields |-> <<[kind |-> "State", name |-> "count",
                            initialValue |-> "0"]>>,
              ctor |-> NoConstructor],
   expected |-> Constructor(<<SuperCall, Assignment("count", "0")>>)]
\* 'should preserve statements in an existing constructor super, decorated
\* field' (its literal "bar" and its statement console.log("hello!") are
\* written as the literal and the statement of the sets above)
TestPreserveWithSuper ==
  [given |-> [heritage |-> "extends",
              fields |-> <<[kind |-> "Prop", name |-> "foo", initialValue |-> "0"]>>,
              ctor |-> Constructor(<<UserStatement("console.log('boop')")>>)],
   expected |-> Constructor(<<SuperCall, Assignment("foo", "0"),
                              UserStatement("console.log('boop')")>>)]
\* 'should not add a super call to the constructor if not necessary'
TestNoSuper ==
  [given |-> [heritage |-> "implements",
              fields |-> <<[kind |-> "State", name |-> "count",
                            initialValue |-> "0"]>>,
              ctor |-> NoConstructor],
   expected |-> Constructor(<<Assignment("count", "0")>>)]
\* 'should not add a constructor if no class fields are present'
TestNoFields ==
  [given |-> [heritage |-> "none", fields |-> <<>>, ctor |-> NoConstructor],
   expected |-> NoConstructor]
\* 'should not convert `@Event` fields to constructor-initialization'
TestEventOnly ==
  [given |-> [heritage |-> "none",
              fields |-> <<[kind |-> "Event", name |-> "val",
                            initialValue |-> UndefinedValue]>>,
              ctor |-> NoConstructor],
   expected |-> NoConstructor]
\* 'should preserve statements in an existing constructor'
TestPreserve ==
  [given |-> [heritage |-> "none", fields |-> <<>>,
              ctor |-> Constructor(<<UserStatement("console.log('boop')")>>)],
   expected |-> Constructor(<<UserStatement("console.log('boop')")>>)]
\* the static accessors in the whole output that the tests 'should add a super
\* call to the constructor if necessary', 'should not add a super call to the
\* constructor if not necessary', 'should not add a constructor if no class
\* fields are present' and 'should preserve statements in an existing
\* constructor' expect
TestAddSuperAccessors == {"states"}
TestNoSuperAccessors == {"is", "states"}
TestNoFieldsAccessors == {"is"}
TestPreserveAccessors == {"is"}
RewriterTests ==
  {TestPreserveWithProp, TestUserInitializes, TestAddSuper, TestPreserveWithSuper,
   TestNoSuper, TestNoFields, TestEventOnly, TestPreserve}

\* the rewriter is given any component class
RewriteInit ==
  /\ classNode \in ClassDeclarations
  /\ rewritten = NotRewritten
  /\ config = [outputTargets |-> {}, globalStyle |-> NoPath]
  /\ fs = [f \in CssFiles |-> Text({})]
  /\ cachedGlobalStyle = Null
  /\ cssModuleImports = [k \in {} |-> <<>>]
  /\ InitBuild
  /\ calls = [p \in Callers |-> NoCall]
  /\ cacheWriter = 0
  /\ InitLink

\* the class is rewritten
RewriteClass ==
  /\ rewritten = NotRewritten
  /\ \E local \in BOOLEAN :
       rewritten' = [done |-> TRUE, ctor |-> RewriteConstructor(classNode),
                     accessors |-> StaticAccessors(classNode, local)]
  /\ UNCHANGED <<classNode, config, fs, cachedGlobalStyle, cssModuleImports,
                 buildVars, calls, cacheWriter, linkVars>>

RewriteNext == RewriteClass

RewriteSpec == RewriteInit /\ [][RewriteNext]_vars

\* ---------------------------------------------------------------- claims
\* a global style is configured: an output target and an entry path
Configured == config.outputTargets # {} /\ config.globalStyle # NoPath
\* the step in which generateGlobalStyles is called
IsStartBuild == pc = "idle" /\ pc' # "idle"
\* step 3 of the decision: a rebuild without style changes
ShortCircuited(ctx) == ctx.isRebuild /\ ~ctx.hasStyleChanges

\* C1: a build that finds a cached global style, and is a rebuild without style
\* changes that does not require a full build, returns the cached text as it
\* is, and calls neither readFile nor the transforms nor the optimizer,
\* whatever filesChanged holds.
C1_CacheShortCircuit ==
  [][(/\ IsStartBuild
      /\ Configured
      /\ IsTruthy(cachedGlobalStyle)
      /\ ~buildCtx'.requiresFullBuild
      /\ ShortCircuited(buildCtx'))
     => (/\ pc' = "done"
         /\ decision' = "valid"
         /\ result' = cachedGlobalStyle
         /\ cachedGlobalStyle' = cachedGlobalStyle
         /\ walk'.reads = {}
         /\ transformCalls' = 0
         /\ optimizeCalls' = 0)]_vars

\* C1's case: the short-circuit returned the cached text although the entry
\* file itself is in filesChanged
C1_Witness ==
  /\ pc = "done"
  /\ Configured
  /\ ShortCircuited(buildCtx)
  /\ config.globalStyle \in buildCtx.filesChanged
  /\ decision = "valid"
  /\ IsTruthy(result)
  /\ result = cachedGlobalStyle

\* the cached text is still the one canSkipGlobalStyles looked at
CacheAsDecided == pc \in {"walk", "transform", "optimize"} \/ decision = "valid"
\* canSkipGlobalStyles started the import walk in this build
WalkRan == walk.noLoop # <<>>
\* the import edges the walk follows: the entry file's are those of the cached
\* text it is started with, every other file's those of its content on disk
Edges(f) ==
  IF f = config.globalStyle THEN cachedGlobalStyle.imports
  ELSE IF f \in CssFiles THEN fs[f].imports ELSE {}
RECURSIVE Closure(_, _)
Closure(S, n) ==
  IF n = 0 THEN S ELSE Closure(S \cup UNION {Edges(f) : f \in S}, n - 1)
\* the files reachable from the entry file through one or more import edges
Reachable == Closure(Edges(config.globalStyle), Cardinality(CssFiles))
\* the reads of the walk still in flight
PendingCount(w) == w.pending[G] + w.pending[A] + w.pending[B]
\* a bound on the work left to the walk: the reads in flight, and for every
\* file not yet in noLoop the reads its visit may start
WalkMeasure(w) ==
  PendingCount(w)
  + (Cardinality(CssFiles) + 1) * Cardinality(CssFiles \ Range(w.noLoop))
\* the import graph entry -> a.css -> entry
IsCycle ==
  /\ Configured
  /\ IsTruthy(cachedGlobalStyle)
  /\ cachedGlobalStyle.imports = {A}
  /\ fs[A].imports = {config.globalStyle}

C3_StaleBeforeShortCircuit ==
  [][(/\ IsStartBuild
      /\ Configured
      /\ (~IsTruthy(cachedGlobalStyle) \/ buildCtx'.requiresFullBuild))
     => (/\ decision' = "stale"
         /\ pc' = "transform"
         /\ transformCalls' = 1)]_vars

\* C3's case: a full build of a rebuild without style changes, a text cached
C3_Witness ==
  /\ pc = "transform"
  /\ Configured
  /\ IsTruthy(cachedGlobalStyle)
  /\ buildCtx.requiresFullBuild
  /\ ShortCircuited(buildCtx)
  /\ decision = "stale"

\* C4: with a cached value, no short-circuit by step 3 and the entry file in
\* filesChanged, the build is answered stale and the transform chain runs,
\* without a walk and without a read.
C4_EntryChanged ==
  [][(/\ IsStartBuild
      /\ Configured
      /\ IsTruthy(cachedGlobalStyle)
      /\ ~ShortCircuited(buildCtx')
      /\ config.globalStyle \in buildCtx'.filesChanged)
     => (/\ decision' = "stale"
         /\ pc' = "transform"
         /\ transformCalls' = 1
         /\ walk' = NoWalk)]_vars

\* C4's case: the entry file changed, nothing else asks for a recomputation
C4_Witness ==
  /\ pc = "transform"
  /\ Configured
  /\ IsTruthy(cachedGlobalStyle)
  /\ ~buildCtx.requiresFullBuild
  /\ ~ShortCircuited(buildCtx)
  /\ config.globalStyle \in buildCtx.filesChanged
  /\ decision = "stale"

\* the dependencies buildGlobalStyles recorded for the entry file (line 72)
RecordedDependencies ==
  Range(MapGet(cssModuleImports, normalizePath(config.globalStyle)).list)

C7_FailureIsCaught ==
  (pc = "done" /\ (transformed = "throw" \/ optimized = "throw"))
  => (/\ result = Null
      /\ cachedGlobalStyle = Null
      /\ Len(diagnostics) = 1
      /\ diagnostics[1].absFilePath = normalizePath(config.globalStyle)
      /\ writes = {})

\* C7's case: the optimizer threw in a build that the walk had found stale, so
\* a text was cached when the build began
C7_Witness ==
  /\ pc = "done"
  /\ optimized = "throw"
  /\ walk.found
  /\ cachedGlobalStyle = Null
  /\ Len(diagnostics) = 1

\* C8: the build with a global style that follows a failed recomputation is
\* answered stale at once and runs the transform chain, whatever its build
\* context is; it does not return a cached text.
C8_ColdAfterFailure ==
  [][(IsStartBuild /\ Configured /\ lastBuild = "failed")
     => (/\ decision' = "stale"
         /\ pc' = "transform"
         /\ transformCalls' = 1
         /\ walk' = NoWalk
         /\ result' = Pending)]_vars

\* C8's case: after a failed build, a rebuild without style changes
C8_Witness ==
  /\ pc = "transform"
  /\ Configured
  /\ lastBuild = "failed"
  /\ ShortCircuited(buildCtx)
  /\ ~buildCtx.requiresFullBuild
  /\ decision = "stale"

\* C9: without a global-style output target, or without an entry path,
\* generateGlobalStyles returns an empty result and leaves cachedGlobalStyle
\* and cssModuleImports as they were, and calls neither the transforms, the
\* optimizer, readFile, writeFile nor addWatchFile.
C9_NotConfiguredIsNoOp ==
  [][(IsStartBuild /\ ~Configured)
     => (/\ pc' = "done"
         /\ result' = (IF config.outputTargets = {} THEN EmptyString ELSE Null)
         /\ cachedGlobalStyle' = cachedGlobalStyle
         /\ cssModuleImports' = cssModuleImports
         /\ transformCalls' = 0
         /\ optimizeCalls' = 0
         /\ walk' = NoWalk
         /\ writes' = {}
         /\ watched' = {})]_vars

\* C9's case: a build without output targets in a session that holds a cached
\* text and recorded dependencies
C9_Witness ==
  /\ pc = "done"
  /\ config.outputTargets = {}
  /\ result = EmptyString
  /\ IsTruthy(cachedGlobalStyle)
  /\ RecordedDependencies # {}

EntryImportsA == Configured /\ fs[config.globalStyle].imports = {A}
\* the scenario's second build: a rebuild, unrelated.ts changed, no style change
SecondBuildCtx ==
  [isRebuild |-> TRUE, requiresFullBuild |-> FALSE, hasStyleChanges |-> FALSE,
   filesChanged |-> {U}]
\* the scenario's third build: a rebuild, a.css changed, a style change
ThirdBuildCtx ==
  [isRebuild |-> TRUE, requiresFullBuild |-> FALSE, hasStyleChanges |-> TRUE,
   filesChanged |-> {A}]

\* C11: the entry file imports a.css.  After a build that computed and cached
\* a text X, the build of SecondBuildCtx returns X and reads no file; after
\* that build reused X, the build of ThirdBuildCtx is not answered valid: it
\* is answered stale and runs the transform chain.
C11_ThreeBuildScenario ==
  /\ [][(/\ IsStartBuild
         /\ EntryImportsA
         /\ lastBuild = "computed"
         /\ IsTruthy(cachedGlobalStyle)
         /\ buildCtx' = SecondBuildCtx)
        => (/\ pc' = "done"
            /\ result' = cachedGlobalStyle
            /\ cachedGlobalStyle' = cachedGlobalStyle
            /\ walk'.reads = {})]_vars
  /\ [][(/\ EntryImportsA
         /\ lastBuild = "reused"
         /\ IsTruthy(cachedGlobalStyle)
         /\ buildCtx' = ThirdBuildCtx
         /\ decision = "none")
        => (/\ decision' # "valid"
            /\ pc' = "transform" => (decision' = "stale" /\ transformCalls' = 1))]_vars

\* C13: when generateGlobalStyles has returned, what it gave to writeFile is the
\* returned text for every configured output target when that text is not
\* empty, computed or cached, and nothing otherwise: nothing without an output
\* target, nothing after a failed build.
C13_WritesTextToEveryTarget ==
  pc = "done"
  => /\ writes = (IF IsTruthy(result)
                  THEN {<<o, result>> : o \in config.outputTargets}
                  ELSE {})
     /\ (config.outputTargets = {} => writes = {})
     /\ (RecomputeFailed => writes = {})
     /\ (decision = "valid" => result = cachedGlobalStyle)
     /\ (optimized = "ok" => result = cachedGlobalStyle)

\* C13's case: a text computed in this build is written to both output targets
C13_Witness ==
  /\ pc = "done"
  /\ optimized = "ok"
  /\ IsTruthy(result)
  /\ writes = {<<O1, result>>, <<O2, result>>}

\* the step in which the recomputation of the caller p ends and assigns
\* cachedGlobalStyle (lines 57, 62 and 81)
AssignsCache(p) ==
  /\ calls[p].pc \in {"transform", "optimize"}
  /\ calls'[p].pc = "done"

\* C12: under concurrent calls of generateGlobalStyles on one session, at most
\* one recomputation is in flight at any time, and no recomputation assigns
\* cachedGlobalStyle after a recomputation that started later has assigned it.
C12_RecomputationsSerialized ==
  /\ [](Cardinality(InFlight(calls)) <= 1)
  /\ [][\A p \in Callers :
          AssignsCache(p) => calls[p].startedAt >= cacheWriter]_vars

\* ------------------------------------------------ claims about the linker
\* updateStyleImports has returned, for the static-import (esm) or for the
\* eager-require (cjs) convention
LinkedEsm == updated # NotUpdated /\ transformOpts.module = "esm"
LinkedCjs == updated # NotUpdated /\ transformOpts.module = "cjs"
\* the style entries of the module, in component/style iteration order
AllEntries == StyleEntries(moduleFile.cmps)
\* a style entry with an identifier and an external style: one that gets an
\* import or a require of its own
IsUrlEntry(e) == e.style.styleIdentifier # NoName /\ e.style.externalStyles # <<>>
\* a style entry with an identifier and no external style
IsIdentifierEntry(e) ==
  e.style.styleIdentifier # NoName /\ e.style.externalStyles = <<>>
UrlEntries == SelectSeq(AllEntries, IsUrlEntry)
IdentifierEntries == SelectSeq(AllEntries, IsIdentifierEntry)
\* the derived module path of a style entry with an external style
UrlPath(e) ==
  getStyleImportPath(transformOpts, tsSourceFile, e.cmp, e.style,
                     e.style.externalStyles[1])
\* the original statements and their number
Original == tsSourceFile.statements
\* the number of statements added
Added == Len(updated.statements) - Len(Original)
\* the index of the last import declaration of the original statements
LastOriginalImport ==
  IF \E i \in DOMAIN Original : Original[i].kind = "import"
  THEN CHOOSE i \in DOMAIN Original :
         /\ Original[i].kind = "import"
         /\ \A j \in DOMAIN Original : Original[j].kind = "import" => j <= i
  ELSE 0
\* the statement of the output that stands for the i-th original statement,
\* when the added statements follow the k-th original one
After(k, i) == updated.statements[IF i <= k THEN i ELSE i + Added]
\* the original import declarations that a style entry with an identifier and
\* no external style names by their default binding
Renamed(i) ==
  /\ Original[i].kind = "import"
  /\ \E j \in DOMAIN IdentifierEntries :
       IdentifierEntries[j].style.styleIdentifier = Original[i].name

\* C14: in the static-import convention the imports created for the style
\* entries (one per entry with an identifier and an external style, bound to
\* the identifier, from the derived path) stand together, in iteration order,
\* right after the last import declaration of the module, at the top when
\* it has none; the original statements keep their order, their kind and
\* binding, and their content unless an entry without external style names
\* them; one entry with no prior import of its identifier adds exactly one
\* import and leaves every original statement as it was.
C14_EsmImportsAfterLastImport ==
  LinkedEsm
  => /\ Added = Len(UrlEntries)
     /\ \A j \in DOMAIN UrlEntries :
          updated.statements[LastOriginalImport + j]
            = ImportDeclaration(UrlEntries[j].style.styleIdentifier,
                                UrlPath(UrlEntries[j]))
     /\ \A i \in DOMAIN Original :
          /\ After(LastOriginalImport, i).kind = Original[i].kind
          /\ After(LastOriginalImport, i).name = Original[i].name
          /\ ~Renamed(i) => After(LastOriginalImport, i) = Original[i]
     /\ (/\ Len(UrlEntries) = 1
         /\ IdentifierEntries = <<>>
         /\ ImportsOf(Original, UrlEntries[1].style.styleIdentifier) = {})
        => /\ Added = 1
           /\ \A i \in DOMAIN Original : After(LastOriginalImport, i) = Original[i]

\* C14's case: two imports created, one for a style of each component, put
\* between the import declaration and the statement that follows it
C14_Witness ==
  /\ LinkedEsm
  /\ Len(Original) = 2
  /\ LastOriginalImport = 1
  /\ Len(UrlEntries) = 2
  /\ UrlEntries[1].cmp # UrlEntries[2].cmp
  /\ updated.statements[1] = Original[1]
  /\ updated.statements[4] = Original[2]

\* the import declarations of the output whose default binding is name
OutputImportsOf(name) == ImportsOf(updated.statements, name)

\* C15 as claimed: in the static-import convention, for a style entry with an
\* external style whose identifier is the default binding of an import
\* declaration of the module, no import is added: the output has as many
\* imports of that binding as the module had, and the first has the derived
\* path of the entry at its old place.
C15_UrlEntryRewritesExistingImport ==
  LinkedEsm
  => \A j \in DOMAIN UrlEntries :
       LET name == UrlEntries[j].style.styleIdentifier
           found == ImportsOf(Original, name)
       IN found # {}
          => /\ Cardinality(OutputImportsOf(name)) = Cardinality(found)
             /\ updated.statements[Least(found)].name = name
             /\ updated.statements[Least(found)].path # Original[Least(found)].path

\* C15 as amended: in the static-import convention, for a style entry with an
\* identifier and no external style whose identifier is the default binding
\* of an import declaration of the module, no import is added for the entry,
\* and the first such import declaration, at its old place and with its
\* binding, has the path derived from its old path (derived once when the
\* entry is the only one of that identifier); the other statements of the
\* module are as they were.  A style entry with an external style gets a new
\* import even when its identifier is imported already.
C15_IdentifierEntryRewritesImport ==
  LinkedEsm
  => /\ Added = Len(UrlEntries)
     /\ \A j \in DOMAIN IdentifierEntries :
          LET e == IdentifierEntries[j]
              name == e.style.styleIdentifier
              found == ImportsOf(Original, name)
              alone == \A k \in DOMAIN IdentifierEntries :
                         IdentifierEntries[k].style.styleIdentifier = name => k = j
          IN found # {}
             => LET i == Least(found)
                    old == Original[i].path
                    new == updated.statements[i].path
                IN /\ updated.statements[i].kind = "import"
                   /\ updated.statements[i].name = name
                   /\ Len(new) > Len(old)
                   /\ SubSeq(new, 1, Len(old)) = old
                   /\ alone => new = getStyleImportPath(transformOpts, tsSourceFile,
                                                       e.cmp, e.style, old)
                   /\ \A k \in DOMAIN Original :
                        k # i => After(LastOriginalImport, k) = Original[k]
     /\ \A j \in DOMAIN UrlEntries :
          updated.statements[LastOriginalImport + j].name
            = UrlEntries[j].style.styleIdentifier

\* C15's case: the module imports cmpAStyle0 twice and has one style entry of
\* that identifier without external style; the first import is rewritten,
\* the second is not, nothing is added
C15_Witness ==
  /\ LinkedEsm
  /\ Len(IdentifierEntries) = 1
  /\ UrlEntries = <<>>
  /\ Len(Original) = 2
  /\ ImportsOf(Original, IdentifierEntries[1].style.styleIdentifier) = {1, 2}
  /\ updated.statements[1].path # Original[1].path
  /\ updated.statements[2] = Original[2]
  /\ Len(updated.statements) = 2

\* C16: in the eager-require convention the statements of the output are one
\* require declaration per style entry with an identifier and an external
\* style, in iteration order, bound to the identifier and calling require
\* with the derived path, followed by the original statements as they were.
C16_CjsRequiresFirst ==
  LinkedCjs
  => /\ Added = Len(UrlEntries)
     /\ \A j \in DOMAIN UrlEntries :
          updated.statements[j]
            = RequireStatement(UrlEntries[j].style.styleIdentifier,
                               UrlPath(UrlEntries[j]))
     /\ \A i \in DOMAIN Original : updated.statements[Added + i] = Original[i]

\* C16's case: two requires, one for a style of each component, before two
\* original statements, in a module that also has a style entry with an
\* external style and no identifier
C16_Witness ==
  /\ LinkedCjs
  /\ Len(UrlEntries) = 2
  /\ UrlEntries[1].cmp # UrlEntries[2].cmp
  /\ Len(AllEntries) = 3
  /\ \E k \in DOMAIN AllEntries :
       /\ AllEntries[k].style.styleIdentifier = NoName
       /\ AllEntries[k].style.externalStyles # <<>>
  /\ Len(Original) = 2
  /\ Len(updated.statements) = 4
  /\ updated.statements[1].kind = "require"

\* C17 as claimed: in both conventions updateStyleImports returns the source
\* file it was given, the same object, when no style entry of the module has
\* an external style.
C17_SameObjectWithoutExternalStyles ==
  (/\ updated # NotUpdated
   /\ \A k \in DOMAIN AllEntries : AllEntries[k].style.externalStyles = <<>>)
  => updated = tsSourceFile

\* C17 as amended: updateStyleImports returns the source file it was given,
\* the same object, in the eager-require convention when no style entry has
\* both an identifier and an external style, and in the static-import
\* convention when no style entry has an identifier; with a style entry that
\* has an identifier the static-import convention returns a new source file,
\* also when the entry has no external style.  A component without style
\* entries contributes nothing.
C17_SameObjectWhenNothingToLink ==
  /\ (LinkedCjs /\ UrlEntries = <<>>) => updated = tsSourceFile
  /\ (/\ LinkedEsm
      /\ \A k \in DOMAIN AllEntries : AllEntries[k].style.styleIdentifier = NoName)
     => updated = tsSourceFile
  /\ (/\ LinkedEsm
      /\ \E k \in DOMAIN AllEntries : AllEntries[k].style.styleIdentifier # NoName)
     => updated.ref # tsSourceFile.ref

\* C17's case: the static-import convention, a module whose style entries
\* have no identifier, one of them with an external style, and a source file
\* with statements: the same object is returned
C17_Witness ==
  /\ LinkedEsm
  /\ Len(AllEntries) = 2
  /\ \A k \in DOMAIN AllEntries : AllEntries[k].style.styleIdentifier = NoName
  /\ \E k \in DOMAIN AllEntries : AllEntries[k].style.externalStyles # <<>>
  /\ Len(Original) = 2
  /\ updated = tsSourceFile


\* --------------- the field rewriter's claims
\* the fields of the class given that are Prop, State or Other fields, in
\* declaration order
ParticipatingFields ==
  SelectSeq(classNode.fields, LAMBDA f : f.kind \in {"Prop", "State", "Other"})
\* the statements the user wrote in the constructor of the class given
UserWritten == classNode.ctor.statements
\* the statements of the constructor the rewriter returned
Rewritten == rewritten.ctor.statements
\* the user wrote a superclass call
UserCallsSuper == \E j \in DOMAIN UserWritten : UserWritten[j].kind = "super"
\* the statements from position lead + 1 on are one assignment per
\* Prop/State/Other field in declaration order, then the user's statements
AssignmentsThenUser(lead) ==
  /\ rewritten.ctor.present
  /\ Len(Rewritten) = lead + Len(ParticipatingFields) + Len(UserWritten)
  /\ \A i \in DOMAIN ParticipatingFields :
       Rewritten[lead + i] =
         [kind |-> "assign", member |-> ParticipatingFields[i].name,
          value |-> ParticipatingFields[i].initialValue]
  /\ \A j \in DOMAIN UserWritten :
       Rewritten[lead + Len(ParticipatingFields) + j] = UserWritten[j]
\* a superclass call leads the rewritten constructor: the class extends a
\* class that is not locally resolvable, the user wrote no superclass call and
\* there is a field to initialize
LeadingSuper ==
  /\ classNode.heritage = "extends"
  /\ ~UserCallsSuper
  /\ ParticipatingFields # <<>>

\* C18 as stated: when the class already has a constructor, the rewritten
\* constructor's statements are exactly one initialization assignment per
\* Prop/State/Other field in declaration order, followed by all user-written
\* statements in their original order
C18_ExactlyAssignmentsThenUser ==
  (rewritten.done /\ classNode.ctor.present) => AssignmentsThenUser(0)

\* C18: when the class already has a constructor, the rewritten constructor's
\* statements are exactly: a bare superclass call when the class extends a
\* class that is not locally resolvable, the constructor has none and there is
\* a field to initialize; then one initialization assignment per
\* Prop/State/Other field in declaration order (captured initial value, or
\* undefined when none); then all user-written statements verbatim in their
\* original order. Hence a user assignment to the same member always comes
\* after the synthesized default assignment.
C18_SuperThenAssignmentsThenUser ==
  (rewritten.done /\ classNode.ctor.present) =>
    /\ LeadingSuper =>
         /\ AssignmentsThenUser(1)
         /\ Rewritten[1] = [kind |-> "super", member |-> "", value |-> ""]
    /\ ~LeadingSuper => AssignmentsThenUser(0)
    /\ \A i \in DOMAIN ParticipatingFields : \A j \in DOMAIN UserWritten :
         (UserWritten[j].kind = "assign"
            /\ UserWritten[j].member = ParticipatingFields[i].name)
           => \E k, l \in DOMAIN Rewritten :
                /\ k < l
                /\ Rewritten[k].kind = "assign"
                /\ Rewritten[k].member = ParticipatingFields[i].name
                /\ Rewritten[k].value = ParticipatingFields[i].initialValue
                /\ Rewritten[l] = UserWritten[j]
                /\ \A m \in DOMAIN Rewritten :
                     (Rewritten[m].kind = "assign"
                        /\ Rewritten[m].member = ParticipatingFields[i].name
                        /\ m # k)
                       => \E j2 \in DOMAIN UserWritten :
                            m = Len(Rewritten) - Len(UserWritten) + j2

\* the class of the test 'should preserve statements in an existing
\* constructor super, decorated field' has been rewritten as the test expects
C18_Witness ==
  /\ rewritten.done
  /\ classNode = TestPreserveWithSuper.given
  /\ rewritten.ctor = TestPreserveWithSuper.expected

\* the number of assignments among the statements
Assignments(statements) ==
  Cardinality({k \in DOMAIN statements : statements[k].kind = "assign"})

\* C19: for a class without a constructor, the rewriter adds a constructor if
\* and only if the class has at least one Prop/State/Other field; Event fields
\* never produce a constructor assignment, and a class whose only annotated
\* fields are Events gets no constructor.
C19_ConstructorIffFieldToInitialize ==
  rewritten.done =>
    /\ ~classNode.ctor.present =>
         /\ rewritten.ctor.present <=>
              \E i \in DOMAIN classNode.fields :
                classNode.fields[i].kind \in {"Prop", "State", "Other"}
         /\ \A i \in DOMAIN classNode.fields :
              classNode.fields[i].kind = "Event" =>
                \A k \in DOMAIN Rewritten :
                  ~(Rewritten[k].kind = "assign"
                      /\ Rewritten[k].member = classNode.fields[i].name)
         /\ (\A i \in DOMAIN classNode.fields : classNode.fields[i].kind = "Event")
              => ~rewritten.ctor.present
    /\ Assignments(Rewritten) =
         Assignments(UserWritten) + Len(ParticipatingFields)

\* the class of the test 'should not convert `@Event` fields to
\* constructor-initialization' has been rewritten as the test expects
C19_Witness ==
  /\ rewritten.done
  /\ classNode = TestEventOnly.given
  /\ rewritten.ctor = TestEventOnly.expected

\* C20: whenever field initializations are placed in the constructor of a
\* class that extends another, not locally resolvable, class and no super call
\* is already there, the constructor's first statement is a bare super() call
\* that precedes every field assignment, both for a synthesized constructor
\* and for a user-written one; a class that only implements interfaces gets no
\* super call.
C20_SuperCallFirst ==
  rewritten.done =>
    /\ (classNode.heritage = "extends" /\ ~UserCallsSuper
          /\ ParticipatingFields # <<>>)
         => /\ rewritten.ctor.present
            /\ Rewritten # <<>>
            /\ Rewritten[1].kind = "super"
            /\ \A k \in DOMAIN Rewritten :
                 Rewritten[k].kind = "assign" => k > 1
            /\ \A k \in DOMAIN Rewritten : Rewritten[k].kind = "super" => k = 1
    /\ classNode.heritage = "implements"
         => \A k \in DOMAIN Rewritten : Rewritten[k].kind # "super"

\* the class of the test 'should add a super call to the constructor if
\* necessary' has been rewritten as the test expects
C20_Witness ==
  /\ rewritten.done
  /\ classNode = TestAddSuper.given
  /\ rewritten.ctor = TestAddSuper.expected


\* --------------- the builder's claims, continued
\* the list has no duplicates
NoDuplicates(l) == \A i, j \in DOMAIN l : l[i] = l[j] => i = j
\* the dependencies deps that are not in the list old, each once, in the order
\* in which they are first returned
FreshDependencies(old, deps) ==
  LET K == {i \in DOMAIN deps : /\ deps[i] \notin Range(old)
                                /\ \A j \in 1..(i - 1) : deps[j] # deps[i]}
  IN [m \in 1..Cardinality(K) |->
        deps[CHOOSE i \in K : Cardinality({j \in K : j <= i}) = m]]
\* the list recorded for the entry file in the map m
EntryList(m) ==
  IF normalizePath(config.globalStyle) \in DOMAIN m
  THEN m[normalizePath(config.globalStyle)] ELSE <<>>

C24_WalkedAtMostOnce ==
  /\ NoDuplicates(walk.noLoop)
  /\ \A f \in CssFiles : walk.pending[f] > 0 => f \in walk.reads
  /\ Range(walk.noLoop) \subseteq walk.reads \cup {config.globalStyle}

\* C24's case: b.css has been walked and another read of b.css, issued for a
\* second file that imports it, is still in flight
C24_Witness ==
  /\ pc = "walk"
  /\ B \in Range(walk.noLoop)
  /\ walk.pending[B] > 0


\* C25: in step 6 the reachability walk starts from the import statements of
\* the entry file's current content: the first level of files examined is the
\* set of files the entry style file imports now, not imports derived from any
\* previously computed text.  So once the walk has started, a changed file
\* among the entry file's imports is found, and otherwise every file the entry
\* file imports is read, and no other file as long as the entry file is the
\* only file walked.
C25_WalkStartsFromEntryFile ==
  (Configured /\ walk.noLoop # <<>>) =>
    LET firstLevel == getCssImports(config.globalStyle, fs[config.globalStyle])
    IN /\ Head(walk.noLoop) = config.globalStyle
       /\ IF firstLevel \cap buildCtx.filesChanged # {}
          THEN walk.found
          ELSE /\ firstLevel \subseteq walk.reads
               /\ (Len(walk.noLoop) = 1 /\ ~walk.found) => walk.reads = firstLevel


\* the content given to hasChangedImportFile for the i-th file walked: the
\* cached text for the entry file, what was read for any other file
WalkedContent(i) ==
  IF i = 1 THEN cachedGlobalStyle ELSE fs[walk.noLoop[i]]

\* C26: a failing read of an imported file during the walk is swallowed: that
\* branch contributes no further dependencies, the walk does not abort or
\* throw, and a changed file reachable through any other readable branch still
\* yields a stale verdict.  A branch is readable when its files are walked,
\* which they are when a read of them succeeds.
C26_FailedReadIsSwallowed ==
  (pc \in {"walk", "transform", "done"} /\ walk.noLoop # <<>>) =>
    \* nothing is thrown or recorded
    /\ diagnostics = <<>>
    \* every file walked is looked at in full: a changed import is found,
    \* otherwise each of its imports is given to readFile
    /\ \A i \in DOMAIN walk.noLoop :
         IF WalkedContent(i).imports \cap buildCtx.filesChanged # {}
         THEN walk.found
         ELSE WalkedContent(i).imports \subseteq walk.reads
    \* a file is walked only after a read of it
    /\ \A i \in DOMAIN walk.noLoop : i > 1 => walk.noLoop[i] \in walk.reads
    \* the verdict waits for every read and is stale when an import was found
    /\ pc # "walk" =>
         /\ walk.pending = NoPending
         /\ decision = IF walk.found THEN "stale" ELSE "valid"
    \* when no read failed, every file read is walked
    /\ (pc # "walk" /\ ~walk.readFailed) => walk.reads \subseteq Range(walk.noLoop)

\* C26's case: every read of some file failed, so that it was never walked,
\* and the walk went on and found a changed file through another branch
C26_Witness ==
  /\ pc = "transform"
  /\ decision = "stale"
  /\ walk.readFailed
  /\ walk.found
  /\ \E f \in walk.reads : f \notin Range(walk.noLoop)


\* C27: when the transform chain returns a value of unusable shape (an object
\* without usable code), the failure is handled as a TransformFailure: a
\* diagnostic carrying the entry file path is recorded, the cache is degraded
\* to no-valid-value, and no exception reaches the caller (the call returns
\* the no-valid-value marker).
C27_UnusableShapeIsTransformFailure ==
  (pc = "done" /\ transformed = "unusable") =>
    /\ \E i \in DOMAIN diagnostics :
         diagnostics[i].absFilePath = normalizePath(config.globalStyle)
    /\ cachedGlobalStyle = Null
    /\ result = Null


\* C28: buildGlobalStyles distinguishes a null transform result (no applicable
\* transform: no stylesheet produced) from an empty-string result: an empty
\* string is handled as a plain style string, i.e. passed to the optimizer and
\* its output stored as the new cached value.
C28_EmptyStringIsAStyleString ==
  /\ transformed = "null" =>
       /\ optimizeCalls = 0
       /\ pc = "done"
       /\ result = Null
  /\ transformed = "emptyString" =>
       /\ optimizeCalls = 1
       /\ pc \in {"optimize", "done"}
       /\ (pc = "done" /\ optimized = "ok") => cachedGlobalStyle = result


\* C29: after every sequentially executed buildGlobalStyles call with a global
\* style configured, the value returned equals the value left in
\* cachedGlobalStyle: both are the same stylesheet text, or both are the
\* no-valid-value marker; in particular the cache never holds a text from a
\* call that returned failure.
C29_ReturnedIsCached ==
  (pc = "done" /\ Configured) =>
    /\ result = cachedGlobalStyle
    /\ result.kind \in {"text", "empty", "null"}
    /\ (transformed \in {"throw", "unusable", "null", "emptyString"}
          \/ optimized = "throw")
         => (result = Null /\ cachedGlobalStyle = Null)

\* C29's case: a session whose last build left a text in the cache, and a
\* build in which the optimizer threw: null is returned and null is cached
C29_Witness ==
  /\ pc = "done"
  /\ Configured
  /\ lastBuild \in {"computed", "reused"}
  /\ optimized = "throw"
  /\ cachedGlobalStyle = Null
  /\ result = Null


\* C30: a successful recomputation whose optimized output is the empty string
\* is never reused: generateGlobalStyles writes no output file for it, and the
\* following build treats the cache as absent and re-runs the transform chain,
\* without a walk, even when isRebuild is true and hasStyleChanges is false.
C30_EmptyOutputIsNeverReused ==
  /\ []((pc = "done" /\ optimized = "ok" /\ result = EmptyString)
          => (writes = {} /\ cachedGlobalStyle = EmptyString))
  /\ [][(IsStartBuild /\ Configured /\ cachedGlobalStyle = EmptyString)
          => (/\ pc' = "transform"
              /\ decision' = "stale"
              /\ transformCalls' = 1
              /\ walk' = NoWalk
              /\ result' = Pending)]_vars

\* C30's case: the last build computed the empty string, and a rebuild without
\* style changes and without full build runs the transform chain
C30_Witness ==
  /\ pc = "transform"
  /\ Configured
  /\ lastBuild = "computed"
  /\ cachedGlobalStyle = EmptyString
  /\ buildCtx.isRebuild
  /\ ~buildCtx.hasStyleChanges
  /\ ~buildCtx.requiresFullBuild


====
